---- MODULE Spec2Model ----
(***************************************************************************)
(* Policy-matcher backend: the model-invocation layer (llm.py), the stage  *)
(* orchestrators Analyze / Rewrite / Report (analysis.py, rewrite.py,      *)
(* report.py), the artifact naming convention and the path resolution of   *)
(* the artifact store (rewrite.py, report.py, main.py).                    *)
(*                                                                         *)
(* Python values are tagged records [t, v].  A Python str is a sequence of *)
(* atoms: an atom is one character, or a word that no operation of the     *)
(* program splits ("fix", "20240101").  "_", ".", "/" and " " are always   *)
(* atoms of their own.                                                     *)
(***************************************************************************)
EXTENDS Integers, Sequences, FiniteSets, TLC

VARIABLES
    env,        \* process environment read by config.py at import
    clients,    \* llm.py module globals _anthropic / _openai
    built,      \* number of client constructions so far, per backend
    llm,        \* the call_llm invocation in progress (or the last one)
    calls,      \* the provider replies of a directly invoked call_llm
    chain,      \* artifact naming: the file name handed from stage to stage
    store,      \* OUTPUTS_DIR: file name -> content
    now,        \* the wall clock, in seconds
    run,        \* the stage run in progress: inputs, row position, results so far
    ret,        \* how the last stage run ended: what it returned or raised
    nruns,      \* stage runs started so far
    opened      \* the paths the last request opened for reading

llmVars == <<env, clients, built, llm, calls>>
stageVars == <<store, now, run, ret, nruns, opened>>

vars == <<env, clients, built, llm, calls, chain, store, now, run, ret, nruns, opened>>

-----------------------------------------------------------------------------
(* Python values *)

None == [t |-> "none", v |-> <<>>]
Str(s) == [t |-> "str", v |-> s]
Num(n) == [t |-> "int", v |-> <<n>>]
List(xs) == [t |-> "list", v |-> xs]
Dict(d) == [t |-> "dict", v |-> d]
Bool(b) == [t |-> "bool", v |-> <<b>>]

Min(a, b) == IF a <= b THEN a ELSE b

\* s[:n]
Take(s, n) == SubSeq(s, 1, Min(n, Len(s)))

Whitespace == {" ", "\n", "\t"}

RECURSIVE LStrip(_)
LStrip(s) ==
    IF s # <<>> /\ Head(s) \in Whitespace THEN LStrip(Tail(s)) ELSE s

RECURSIVE RStrip(_)
RStrip(s) ==
    IF s # <<>> /\ s[Len(s)] \in Whitespace
    THEN RStrip(SubSeq(s, 1, Len(s) - 1))
    ELSE s

\* str.strip()
Strip(s) == RStrip(LStrip(s))

UpperToLower ==
    [c \in {"Y", "E", "S", "N", "O", "P"} |->
        CASE c = "Y" -> "y" [] c = "E" -> "e" [] c = "S" -> "s"
          [] c = "N" -> "n" [] c = "O" -> "o" [] c = "P" -> "p"]

\* str.lower()
Lower(s) ==
    [i \in 1..Len(s) |->
        IF s[i] \in DOMAIN UpperToLower THEN UpperToLower[s[i]] ELSE s[i]]

\* str(x)
PyStr(x) ==
    CASE x.t = "str" -> x.v
      [] x.t = "none" -> <<"None">>
      [] x.t = "int" -> x.v
      [] x.t = "bool" -> x.v
      [] OTHER -> <<"<", x.t, ">">>

-----------------------------------------------------------------------------
(* llm.py *)

\* analysis.py REQUIRED_KEYS, rewrite.py REQUIRED_KEYS
AnalysisKeys == <<"match", "if_yes_reason", "suggestions">>
RewriteKeys == <<"rewritten_suggestions">>

Providers == {"anthropic", "openai", "ollama"}

\* A provider reply is the raw text, seen through what each tier of
\* _parse_json finds in it, or an exception raised by the provider call.
\*   whole: json.loads(text), or Bad
\*   fence: the ```-fenced {...} group, parsed: NoMatch, Bad or a value
\*   brace: the greedy {...} span, parsed: NoMatch, Bad or a value
Bad == [t |-> "bad", v |-> <<>>]
NoMatch == [t |-> "nomatch", v |-> <<>>]

Text(w, f, b) == [kind |-> "text", whole |-> w, fence |-> f, brace |-> b, exc |-> ""]
Raises(e) == [kind |-> "raise", whole |-> Bad, fence |-> NoMatch, brace |-> NoMatch, exc |-> e]

JSONDecodeError == [ok |-> FALSE, val |-> None]
Parsed(x) == [ok |-> TRUE, val |-> x]

\* _parse_json: the three tiers; a tier whose regex matched decides alone.
ParseJson(text) ==
    IF text.whole # Bad THEN Parsed(text.whole)
    ELSE IF text.fence # NoMatch
         THEN IF text.fence # Bad THEN Parsed(text.fence) ELSE JSONDecodeError
    ELSE IF text.brace # NoMatch
         THEN IF text.brace # Bad THEN Parsed(text.brace) ELSE JSONDecodeError
    ELSE JSONDecodeError

\* k in result, for the types that define it
Contains(result, k) ==
    CASE result.t = "dict" -> k \in DOMAIN result.v
      [] result.t = "list" -> \E i \in 1..Len(result.v) : result.v[i] = Str(<<k>>)
      [] result.t = "str" -> \E i \in 1..Len(result.v) : result.v[i] = k
      [] OTHER -> FALSE

Iterable(result) == result.t \in {"dict", "list", "str"}

\* required_keys and not all(k in result for k in required_keys)
\* "ok", "missing", or the TypeError of `in` on a value that is no container
KeyCheck(result, required_keys) ==
    IF required_keys = <<>> THEN "ok"
    ELSE IF ~Iterable(result) THEN "TypeError"
    ELSE IF \A i \in 1..Len(required_keys) : Contains(result, required_keys[i])
         THEN "ok" ELSE "missing"

\* range(3)
MaxAttempts == 3

ExhaustedError == "RuntimeError: after 3 attempts"
UnknownProviderError == "ValueError: Unknown provider"

\* The retry loop counting an exception of the provider call as one more
\* failed attempt.
LoopBodySwallowingErrors(required_keys, reply) ==
    IF reply.kind = "raise"
    THEN [act |-> "continue", val |-> None, exc |-> ""]
    ELSE LET p == ParseJson(reply)
             kc == KeyCheck(p.val, required_keys)
         IN  IF ~p.ok THEN [act |-> "continue", val |-> None, exc |-> ""]
             ELSE IF kc = "TypeError"
                  THEN [act |-> "raise", val |-> None, exc |-> "TypeError"]
             ELSE IF kc = "missing"
                  THEN [act |-> "continue", val |-> None, exc |-> ""]
             ELSE [act |-> "return", val |-> p.val, exc |-> ""]

\* One iteration of the retry loop on the provider's reply.
LoopBody(required_keys, reply) ==
    IF reply.kind = "raise"
    THEN [act |-> "raise", val |-> None, exc |-> reply.exc]
    ELSE LET p == ParseJson(reply)
             kc == KeyCheck(p.val, required_keys)
         IN  IF ~p.ok THEN [act |-> "continue", val |-> None, exc |-> ""]
             ELSE IF kc = "TypeError"
                  THEN [act |-> "raise", val |-> None, exc |-> "TypeError"]
             ELSE IF kc = "missing"
                  THEN [act |-> "continue", val |-> None, exc |-> ""]
             ELSE [act |-> "return", val |-> p.val, exc |-> ""]

\* The network side of one provider call: the raw text, or a failure.
NetError(e) == [kind |-> "neterror", whole |-> Bad, fence |-> NoMatch, brace |-> NoMatch, exc |-> e]
NetFailures == {NetError("connect"), NetError("timeout"), NetError("status")}

EnvKey(e, provider) ==
    CASE provider = "anthropic" -> e.anthropic_key
      [] provider = "openai" -> e.openai_key
      [] OTHER -> e.ollama_host

\* the client built whether or not there is a key
GetClientWithoutKey(cl, e, provider) ==
    IF cl[provider] # 0 THEN cl[provider] ELSE built[provider] + 1

\* a client built anew at every call
GetClientAnew(cl, e, provider) ==
    IF ~EnvKey(e, provider) THEN 0 ELSE built[provider] + 1

\* _get_anthropic / _get_openai: the client after the call, or 0 when the
\* key is missing (RuntimeError).  0 stands for the global being None.
GetClient(cl, e, provider) ==
    IF cl[provider] # 0 THEN cl[provider]
    ELSE IF ~EnvKey(e, provider) THEN 0
    ELSE built[provider] + 1

\* _call_anthropic / _call_openai / _call_ollama on the network outcome net:
\* what the call hands to call_llm (text or exception).
ProviderCall(e, cl, provider, net) ==
    IF provider \notin Providers THEN Raises("KeyError")
    ELSE IF provider = "ollama"
    THEN IF ~e.ollama_host THEN Raises("ValueError: OLLAMA_HOST is not configured")
         ELSE IF net = NetError("connect")
              THEN Raises("ValueError: Could not connect to Ollama")
         ELSE IF net = NetError("timeout") THEN Raises("httpx.ReadTimeout")
         ELSE IF net = NetError("status") THEN Raises("ValueError: Ollama returned HTTP")
         ELSE net
    ELSE IF GetClient(cl, e, provider) = 0
         THEN Raises("RuntimeError: API key is not set")
         ELSE IF net = NetError("connect") THEN Raises("APIConnectionError")
         ELSE IF net = NetError("timeout") THEN Raises("APITimeoutError")
         ELSE IF net = NetError("status") THEN Raises("APIStatusError")
         ELSE net

\* The module globals after one provider call.
ClientsAfter(e, cl, provider) ==
    IF provider \in {"anthropic", "openai"}
    THEN [cl EXCEPT ![provider] = GetClient(cl, e, provider)]
    ELSE cl

BuiltAfter(e, cl, provider) ==
    IF provider \in {"anthropic", "openai"} /\ cl[provider] = 0 /\ EnvKey(e, provider)
    THEN [built EXCEPT ![provider] = @ + 1]
    ELSE built

IdleLLM ==
    [status |-> "idle", provider |-> "", required_keys |-> <<>>, attempt |-> 0,
     result |-> None, exc |-> ""]

\* call_llm entered without the allowlist test of the provider tag.
LLMEnterNoAllowlist(provider, required_keys) ==
    [status |-> "calling", provider |-> provider, required_keys |-> required_keys,
     attempt |-> 0, result |-> None, exc |-> ""]

\* call_llm up to the retry loop: the provider allowlist.
LLMEnter(provider, required_keys) ==
    IF provider \notin Providers
    THEN [status |-> "raised", provider |-> provider, required_keys |-> required_keys,
          attempt |-> 0, result |-> None, exc |-> UnknownProviderError]
    ELSE [status |-> "calling", provider |-> provider, required_keys |-> required_keys,
          attempt |-> 0, result |-> None, exc |-> ""]

\* call_llm from one provider call to the next, or to its return or raise.
LLMNext(st, reply) ==
    LET body == LoopBody(st.required_keys, reply)
        n == st.attempt + 1
    IN  CASE body.act = "return" ->
               [st EXCEPT !.status = "returned", !.attempt = n, !.result = body.val]
          [] body.act = "raise" ->
               [st EXCEPT !.status = "raised", !.attempt = n, !.exc = body.exc]
          [] OTHER ->
               IF n >= MaxAttempts
               THEN [st EXCEPT !.status = "raised", !.attempt = n, !.exc = ExhaustedError]
               ELSE [st EXCEPT !.attempt = n]

-----------------------------------------------------------------------------
(* Strings of file names: analysis.py _sanitize, pathlib, str.split *)

\* atoms that are neither \w nor "-"
NonWordAtoms == {" ", ".", "/", "!", "\n", "\t"}

RECURSIVE StripUnderscores(_)
StripUnderscores(s) ==
    IF s # <<>> /\ Head(s) = "_" THEN StripUnderscores(Tail(s))
    ELSE IF s # <<>> /\ s[Len(s)] = "_"
         THEN StripUnderscores(SubSeq(s, 1, Len(s) - 1))
    ELSE s

\* re.sub(r"[^\w\-]", "_", s).strip("_")
Sanitize(s) ==
    StripUnderscores([i \in 1..Len(s) |-> IF s[i] \in NonWordAtoms THEN "_" ELSE s[i]])

\* the indexes of atom a in s
Positions(s, a) == {i \in 1..Len(s) : s[i] = a}

SetMax(S) == CHOOSE x \in S : \A y \in S : y <= x
SetMin(S) == CHOOSE x \in S : \A y \in S : x <= y

\* Path(p).name: what follows the last "/"
PathName(p) ==
    IF Positions(p, "/") = {} THEN p
    ELSE SubSeq(p, SetMax(Positions(p, "/")) + 1, Len(p))

\* Path(p).stem: the name without its last suffix
PathStem(p) ==
    LET name == PathName(p)
        dots == Positions(name, ".")
    IN  IF dots = {} THEN name
        ELSE LET i == SetMax(dots)
             IN  IF 1 < i /\ i < Len(name) THEN SubSeq(name, 1, i - 1) ELSE name

\* stem.split("_", 2)
SplitTwo(stem) ==
    LET us == Positions(stem, "_")
    IN  IF us = {} THEN <<stem>>
        ELSE LET i == SetMin(us)
                 rest == {j \in us : j > i}
             IN  IF rest = {} THEN <<SubSeq(stem, 1, i - 1), SubSeq(stem, i + 1, Len(stem))>>
                 ELSE LET j == SetMin(rest)
                      IN  <<SubSeq(stem, 1, i - 1), SubSeq(stem, i + 1, j - 1),
                            SubSeq(stem, j + 1, Len(stem))>>

\* parts[2] if len(parts) > 2 else stem, keeping the first token too
RemainderKeepFirst(filename) ==
    LET stem == PathStem(filename)
        parts == SplitTwo(stem)
    IN  IF Len(parts) > 1 THEN SubSeq(stem, Len(parts[1]) + 2, Len(stem)) ELSE stem

\* rewrite.py / report.py: the carried-forward suffix of an input file name
Remainder(filename) ==
    LET stem == PathStem(filename)
        parts == SplitTwo(stem)
    IN  IF Len(parts) > 2 THEN parts[3] ELSE stem

\* datetime.now().strftime("%Y%m%d_%H%M%S") at second t of the day 2024-01-01
Timestamp(t) == <<"20240101", "_", ToString(120000 + t)>>

AnalyzeJsonName(t) == Timestamp(t) \o <<"_", "output", "_", "llm1", ".", "json">>
RewriteJsonName(t) == Timestamp(t) \o <<"_", "output", "_", "llm2", ".", "json">>

\* f"{ts}_{safe_client}_{standard}.xlsx"
AnalyzeXlsxName(t, client_name, xlsx_filename) ==
    Timestamp(t) \o <<"_">> \o Sanitize(client_name) \o <<"_">>
        \o Sanitize(PathStem(xlsx_filename)) \o <<".", "xlsx">>

\* f"{ts}_{remainder}.xlsx"
RewriteXlsxName(t, input_xlsx_filename) ==
    Timestamp(t) \o <<"_">> \o Remainder(input_xlsx_filename) \o <<".", "xlsx">>

\* f"{ts}_{remainder}.docx"
ReportDocxName(t, input_xlsx_filename) ==
    Timestamp(t) \o <<"_">> \o Remainder(input_xlsx_filename) \o <<".", "docx">>

-----------------------------------------------------------------------------
(* Tables: openpyxl worksheets as a header row and data rows of equal width *)

Key(k) == Str(<<k>>)

\* dict(zip(headers, row)): a repeated header keeps its last column
HasKey(header, k) == \E i \in 1..Len(header) : header[i] = Key(k)
KeyColumn(header, k) == SetMax({i \in 1..Len(header) : header[i] = Key(k)})

\* row.get(k, default)
RowGet(header, row, k, default) ==
    IF HasKey(header, k) THEN row[KeyColumn(header, k)] ELSE default

\* x or ""
OrEmpty(x) == IF x \in {None, Str(<<>>), Num("0")} THEN Str(<<>>) ELSE x

\* d.get(k, default) on a parsed JSON object
DictGet(d, k, default) == IF k \in DOMAIN d THEN d[k] ELSE default

\* "\n".join(items)
RECURSIVE JoinLines(_)
JoinLines(items) ==
    IF items = <<>> THEN <<>>
    ELSE IF Len(items) = 1 THEN items[1]
    ELSE items[1] \o <<"\n">> \o JoinLines(Tail(items))

-----------------------------------------------------------------------------
(* Output validators: analysis.py and rewrite.py _validate_llm_output *)

ALLOWED_MATCH_VALUES ==
    {<<"y", "e", "s">>, <<"n", "o">>, <<"p", "a", "r", "t", "i", "a", "l">>}
MAX_FIELD_CHARS == 4000
MAX_SUGGESTION_ITEMS == 10
MAX_SUGGESTION_CHARS == 2000

Invalid(e) == [ok |-> FALSE, exc |-> e, val |-> None]
Valid(x) == [ok |-> TRUE, exc |-> "", val |-> x]

MatchValueError == "ValueError: unexpected match value"

\* str(result.get("match", "")).strip().lower()
MatchVal(result) == Lower(Strip(PyStr(DictGet(result.v, "match", Str(<<>>)))))

\* analysis.py _validate_llm_output accepting whatever match value it is given
AnalysisValidateAnyMatch(result) ==
    IF result.t # "dict" THEN Invalid("AttributeError")
    ELSE Valid(Dict(
            [match |-> DictGet(result.v, "match", Str(<<>>)),
             if_yes_reason |->
                 Str(Take(PyStr(DictGet(result.v, "if_yes_reason", Str(<<>>))), MAX_FIELD_CHARS)),
             suggestions |->
                 Str(Take(PyStr(DictGet(result.v, "suggestions", Str(<<>>))), MAX_FIELD_CHARS))]))

\* analysis.py _validate_llm_output
AnalysisValidate(result) ==
    IF result.t # "dict" THEN Invalid("AttributeError")
    ELSE IF MatchVal(result) \notin ALLOWED_MATCH_VALUES THEN Invalid(MatchValueError)
    ELSE Valid(Dict(
            [match |-> Str(MatchVal(result)),
             if_yes_reason |->
                 Str(Take(PyStr(DictGet(result.v, "if_yes_reason", Str(<<>>))), MAX_FIELD_CHARS)),
             suggestions |->
                 Str(Take(PyStr(DictGet(result.v, "suggestions", Str(<<>>))), MAX_FIELD_CHARS))]))

\* rewrite.py _validate_llm_output without its two caps
RewriteValidateNoCaps(result) ==
    IF result.t # "dict" THEN Invalid("AttributeError")
    ELSE LET rewritten == DictGet(result.v, "rewritten_suggestions", List(<<>>))
             items == IF rewritten.t = "str" THEN <<rewritten>> ELSE rewritten.v
         IN  IF rewritten.t \notin {"str", "list"}
             THEN Invalid("ValueError: rewritten_suggestions must be a list")
             ELSE Valid(List([i \in 1..Len(items) |-> Str(PyStr(items[i]))]))

\* rewrite.py _validate_llm_output
RewriteValidate(result) ==
    IF result.t # "dict" THEN Invalid("AttributeError")
    ELSE LET rewritten == DictGet(result.v, "rewritten_suggestions", List(<<>>))
             items == IF rewritten.t = "str" THEN <<rewritten>> ELSE rewritten.v
             capped == Take(items, MAX_SUGGESTION_ITEMS)
         IN  IF rewritten.t \notin {"str", "list"}
             THEN Invalid("ValueError: rewritten_suggestions must be a list")
             ELSE Valid(List([i \in 1..Len(capped) |->
                                Str(Take(PyStr(capped[i]), MAX_SUGGESTION_CHARS))]))

-----------------------------------------------------------------------------
(* Merging results into the table: analyze_policy and rewrite_suggestions *)

AnalyzeCols == <<"match", "if_yes_reason", "suggestions", "selected_llm1">>
RewriteCols == <<"rewritten_suggestions", "selected_llm2">>

\* result_by_id = {str(r["id"]): r for r in results}: the last result wins
HasResult(results, row_id) == \E j \in 1..Len(results) : PyStr(results[j].id) = row_id
ResultById(results, row_id) ==
    results[SetMax({j \in 1..Len(results) : PyStr(results[j].id) = row_id})]

\* the value written to a cell: a list is joined by newlines
CellValue(x) ==
    IF x.t = "list" THEN Str(JoinLines([i \in 1..Len(x.v) |-> x.v[i].v])) ELSE x

\* the new columns written at column 1 onward, over the original cells
MergeOverwriting(table, results, new_cols) ==
    [header |-> [i \in 1..Len(new_cols) |-> Key(new_cols[i])]
                   \o SubSeq(table.header, Len(new_cols) + 1, Len(table.header)),
     rows |-> [n \in 1..Len(table.rows) |->
                 LET row == table.rows[n]
                     row_id == PyStr(row[1])
                 IN  IF HasResult(results, row_id)
                     THEN [i \in 1..Len(new_cols) |->
                              CellValue(ResultById(results, row_id).f[new_cols[i]])]
                          \o SubSeq(row, Len(new_cols) + 1, Len(row))
                     ELSE row]]

\* header cells last_col+1.. get the new names; each data row whose first
\* cell, as a string, is the id of a result gets that result's values
Merge(table, results, new_cols) ==
    [header |-> table.header \o [i \in 1..Len(new_cols) |-> Key(new_cols[i])],
     rows |-> [n \in 1..Len(table.rows) |->
                 LET row == table.rows[n]
                     row_id == PyStr(row[1])
                 IN  IF HasResult(results, row_id)
                     THEN row \o [i \in 1..Len(new_cols) |->
                                    CellValue(ResultById(results, row_id).f[new_cols[i]])]
                     ELSE row \o [i \in 1..Len(new_cols) |-> None]]]

-----------------------------------------------------------------------------
(* The artifact store and path resolution: _resolve_input, download_file *)

\* a path is a sequence of components, a component a sequence of atoms
RECURSIVE Components(_)
Components(s) ==
    IF Positions(s, "/") = {} THEN (IF s = <<>> THEN <<>> ELSE <<s>>)
    ELSE LET i == SetMin(Positions(s, "/"))
             rest == Components(SubSeq(s, i + 1, Len(s)))
         IN  IF i = 1 THEN rest ELSE <<SubSeq(s, 1, i - 1)>> \o rest

IsAbsolute(s) == s # <<>> /\ s[1] = "/"

\* Path(__file__).parent / "outputs"
OUTPUTS_DIR == << <<"app">>, <<"outputs">> >>

\* dir / filename: an absolute filename replaces dir
JoinPath(dir, filename) ==
    IF IsAbsolute(filename) THEN Components(filename) ELSE dir \o Components(filename)

RECURSIVE ResolveFrom(_, _)
ResolveFrom(done, todo) ==
    IF todo = <<>> THEN done
    ELSE IF Head(todo) = <<".">> THEN ResolveFrom(done, Tail(todo))
    ELSE IF Head(todo) = <<".", ".">>
         THEN ResolveFrom(IF done = <<>> THEN <<>> ELSE SubSeq(done, 1, Len(done) - 1),
                          Tail(todo))
    ELSE ResolveFrom(Append(done, Head(todo)), Tail(todo))

\* Path.resolve() on an absolute path
Resolve(path) == ResolveFrom(<<>>, path)

\* str(path).startswith(str(base)): a prefix of the text, not of the components
StartsWith(path, base) ==
    /\ Len(path) >= Len(base)
    /\ SubSeq(path, 1, Len(base) - 1) = SubSeq(base, 1, Len(base) - 1)
    /\ LET c == path[Len(base)]
           b == base[Len(base)]
       IN  Len(c) >= Len(b) /\ SubSeq(c, 1, Len(b)) = b

\* Path.is_relative_to(base)
IsRelativeTo(path, base) ==
    Len(path) >= Len(base) /\ SubSeq(path, 1, Len(base)) = base

\* files of the host outside the store
TEMPLATE_PATH == << <<"app">>, <<"documents">>, <<"template_report", ".", "docx">> >>
OutsideFiles ==
    { << <<"etc">>, <<"passwd">> >>,
      << <<"app">>, <<"secret", ".", "txt">> >>,
      << <<"app">>, <<"outputs", "2">>, <<"x", ".", "xlsx">> >> }

IsStoreFile(st, path) ==
    /\ Len(path) = Len(OUTPUTS_DIR) + 1
    /\ IsRelativeTo(path, OUTPUTS_DIR)
    /\ path[Len(path)] \in DOMAIN st

IsFile(st, e, path) ==
    \/ IsStoreFile(st, path)
    \/ path \in OutsideFiles
    \/ (e.template /\ path = TEMPLATE_PATH)

IsDir(path) ==
    \/ path = OUTPUTS_DIR
    \/ \E f \in OutsideFiles \cup {TEMPLATE_PATH, OUTPUTS_DIR} :
          Len(f) > Len(path) /\ SubSeq(f, 1, Len(path)) = path

Exists(st, e, path) == IsFile(st, e, path) \/ IsDir(path)

InvalidFilenameError == "ValueError: Invalid input filename"

\* _resolve_input testing the text of the path instead of its components
ResolveInputByText(st, e, filename) ==
    LET resolved == Resolve(JoinPath(OUTPUTS_DIR, filename))
    IN  IF ~StartsWith(resolved, Resolve(OUTPUTS_DIR))
        THEN [ok |-> FALSE, exc |-> InvalidFilenameError, path |-> <<>>]
        ELSE IF ~Exists(st, e, resolved)
             THEN [ok |-> FALSE, exc |-> "FileNotFoundError", path |-> <<>>]
        ELSE [ok |-> TRUE, exc |-> "", path |-> resolved]

\* rewrite.py / report.py _resolve_input
ResolveInput(st, e, filename) ==
    LET resolved == Resolve(JoinPath(OUTPUTS_DIR, filename))
    IN  IF ~IsRelativeTo(resolved, Resolve(OUTPUTS_DIR))
        THEN [ok |-> FALSE, exc |-> InvalidFilenameError, path |-> <<>>]
        ELSE IF ~Exists(st, e, resolved)
             THEN [ok |-> FALSE, exc |-> "FileNotFoundError", path |-> <<>>]
        ELSE [ok |-> TRUE, exc |-> "", path |-> resolved]

\* main.py download_file up to the FileResponse
DownloadResolve(st, e, filename) ==
    LET safe_path == Resolve(JoinPath(OUTPUTS_DIR, filename))
    IN  IF ~IsRelativeTo(safe_path, Resolve(OUTPUTS_DIR))
        THEN [ok |-> FALSE, exc |-> "HTTP 400: Invalid filename", path |-> <<>>]
        ELSE IF ~IsFile(st, e, safe_path)
             THEN [ok |-> FALSE, exc |-> "HTTP 404: File not found", path |-> <<>>]
        ELSE [ok |-> TRUE, exc |-> "", path |-> safe_path]

\* file contents
EmptyTable == [header |-> <<>>, rows |-> <<>>]
Xlsx(table) == [kind |-> "xlsx", table |-> table, data |-> <<>>]
Json(results) == [kind |-> "json", table |-> EmptyTable, data |-> results]
Docx(body) == [kind |-> "docx", table |-> EmptyTable, data |-> body]
EmptyStore == [f \in {} |-> Xlsx(EmptyTable)]

\* open(path, "w"): create or replace
WriteFile(st, name, content) == (name :> content) @@ st

\* openpyxl.load_workbook(path): the table, or the failure to read one
LoadWorkbook(st, path) ==
    IF IsStoreFile(st, path) /\ st[path[Len(path)]].kind = "xlsx"
    THEN [ok |-> TRUE, table |-> st[path[Len(path)]].table]
    ELSE [ok |-> FALSE, table |-> EmptyTable]

-----------------------------------------------------------------------------
(* report.py: sanitizing, bullets, ordering, the document body *)

MAX_TEXT_CHARS == 5000
MAX_BULLET_ITEMS == 10
MAX_BULLET_CHARS == 2000

\* atoms matched by _CTRL_RE
ControlAtoms == {"\\x00", "\\x07", "\\x1b", "\\x7f"}

DropAtoms(s, atoms) == SelectSeq(s, LAMBDA a : a \notin atoms)

\* _sanitize_text
SanitizeText(value, max_len) ==
    IF value = None THEN <<>> ELSE Take(DropAtoms(PyStr(value), ControlAtoms), max_len)

\* s.split("\n")
RECURSIVE SplitLines(_)
SplitLines(s) ==
    IF Positions(s, "\n") = {} THEN <<s>>
    ELSE LET i == SetMin(Positions(s, "\n"))
         IN  <<SubSeq(s, 1, i - 1)>> \o SplitLines(SubSeq(s, i + 1, Len(s)))

RECURSIVE NonBlank(_)
NonBlank(items) ==
    IF items = <<>> THEN <<>>
    ELSE IF Strip(Head(items)) = <<>> THEN NonBlank(Tail(items))
    ELSE <<Head(items)>> \o NonBlank(Tail(items))

\* _parse_bullet_items
ParseBulletItems(raw) ==
    IF raw = None THEN <<>>
    ELSE LET kept == NonBlank(SplitLines(PyStr(raw)))
         IN  Take([i \in 1..Len(kept) |-> SanitizeText(Str(kept[i]), MAX_BULLET_CHARS)],
                  MAX_BULLET_ITEMS)

\* code point order of the atoms that ids and categories are written with
AtomOrder == <<"\n", " ", "-", "1", "2", "3", "4", "A", "B", "C", "_", "a", "b", "c">>
AtomRank(a) ==
    IF \E i \in 1..Len(AtomOrder) : AtomOrder[i] = a
    THEN CHOOSE i \in 1..Len(AtomOrder) : AtomOrder[i] = a
    ELSE Len(AtomOrder) + 1

\* a < b for str
RECURSIVE StrLess(_, _)
StrLess(a, b) ==
    IF b = <<>> THEN FALSE
    ELSE IF a = <<>> THEN TRUE
    ELSE IF Head(a) = Head(b) THEN StrLess(Tail(a), Tail(b))
    ELSE AtomRank(Head(a)) < AtomRank(Head(b))

\* (x["category"] or "", x["id"] or "") < the same of y
KeyLess(x, y) ==
    \/ StrLess(x.category, y.category)
    \/ x.category = y.category /\ StrLess(OrEmpty(x.id).v, OrEmpty(y.id).v)

\* the rows left in table order
SortRowsUnsorted(rows) == rows

\* list.sort(key=...): stable
RECURSIVE SortRows(_)
SortRows(rows) ==
    IF rows = <<>> THEN <<>>
    ELSE LET sorted == SortRows(SubSeq(rows, 1, Len(rows) - 1))
             x == rows[Len(rows)]
             k == Cardinality({i \in 1..Len(sorted) : ~KeyLess(x, sorted[i])})
         IN  SubSeq(sorted, 1, k) \o <<x>> \o SubSeq(sorted, k + 1, Len(sorted))

\* the sort compares ids only where categories tie: str against int raises
SortRaises(rows) ==
    \E i, j \in 1..Len(rows) :
        /\ i # j
        /\ rows[i].category = rows[j].category
        /\ OrEmpty(rows[i].id).t # OrEmpty(rows[j].id).t

El(kind, text) == [kind |-> kind, text |-> text]

\* the elements added for the sorted rows from position n on
RECURSIVE Body(_, _)
Body(rows, n) ==
    IF n > Len(rows) THEN <<>>
    ELSE (IF n = 1 THEN <<El("page_break", <<>>)>> ELSE <<>>)
         \o (IF n = 1 \/ rows[n].category # rows[n - 1].category
             THEN <<El("heading2", rows[n].category)>> ELSE <<>>)
         \o <<El("heading3", rows[n].title), El("paragraph", rows[n].control)>>
         \o [i \in 1..Len(rows[n].items) |-> El("bullet", rows[n].items[i])]
         \o Body(rows, n + 1)

\* a row is reported when it has a suggestions cell at all
ReportableAnyCell(header, row) == OrEmpty(RowGet(header, row, "suggestions", None)).v # <<>>

\* (row.get("suggestions") or "").strip() is not empty
Reportable(header, row) ==
    Strip(OrEmpty(RowGet(header, row, "suggestions", None)).v) # <<>>

ProcessedRow(header, row) ==
    [category |-> SanitizeText(RowGet(header, row, "category", None), MAX_TEXT_CHARS),
     title |-> SanitizeText(RowGet(header, row, "title", None), MAX_TEXT_CHARS),
     control |-> SanitizeText(RowGet(header, row, "control", None), MAX_TEXT_CHARS),
     items |-> ParseBulletItems(RowGet(header, row, "rewritten_suggestions", None)),
     id |-> RowGet(header, row, "id", Str(<<>>))]

RECURSIVE ProcessedRows(_, _)
ProcessedRows(table, n) ==
    IF n > Len(table.rows) THEN <<>>
    ELSE (IF Reportable(table.header, table.rows[n])
          THEN <<ProcessedRow(table.header, table.rows[n])>> ELSE <<>>)
         \o ProcessedRows(table, n + 1)

-----------------------------------------------------------------------------
(* Replies used to exercise call_llm *)

VerdictYes ==
    Dict([match |-> Str(<<"y", "e", "s">>), if_yes_reason |-> Str(<<"ok">>),
          suggestions |-> Str(<<>>)])
VerdictNoKeys == Dict([match |-> Str(<<"y", "e", "s">>)])
RewriteOne == Dict([rewritten_suggestions |-> Str(<<"one">>)])
ArrayOfKeys ==
    List(<<Str(<<"match">>), Str(<<"if_yes_reason">>), Str(<<"suggestions">>)>>)
StringOfKeys == Str(<<"match", " ", "if_yes_reason", " ", "suggestions">>)

Plain(x) == Text(x, NoMatch, NoMatch)
Garbage == Text(Bad, NoMatch, NoMatch)
Fenced(x) == Text(Bad, x, x)
Prose(x) == Text(Bad, NoMatch, x)
\* '{"k": "```{bad}```"}x': the fenced group is no JSON, the brace span is
BadFenceGoodBrace(x) == Text(Bad, Bad, x)

LLMReplies ==
    {Plain(VerdictYes), Plain(VerdictNoKeys), Plain(RewriteOne), Garbage,
     Fenced(VerdictYes), Prose(VerdictYes), BadFenceGoodBrace(VerdictYes),
     Plain(List(<<>>)), Plain(ArrayOfKeys), Plain(StringOfKeys),
     Plain(Num("5")), Plain(None)}

LLMProviders == Providers \cup {"grok", ""}
LLMRequiredKeys == {<<>>, AnalysisKeys, RewriteKeys}

-----------------------------------------------------------------------------
(* call_llm invoked directly, as tests/test_llm.py does *)

Configured ==
    [anthropic_key |-> TRUE, openai_key |-> TRUE, ollama_host |-> TRUE, template |-> TRUE]

\* lines of the initial state shared by the specifications: an empty store
InitStore ==
    /\ store = [f \in {} |-> 0]
    /\ now = 1
    /\ run = [stage |-> "idle"]
    /\ ret = [status |-> "none"]
    /\ nruns = 0
    /\ opened = {}

NoChain == [stage |-> "none", input |-> <<>>, file |-> <<>>, client |-> <<>>, table |-> <<>>]

Envs == [anthropic_key : BOOLEAN, openai_key : BOOLEAN, ollama_host : BOOLEAN, template : {TRUE}]

InitLLM ==
    /\ env \in Envs
    /\ clients = [p \in {"anthropic", "openai"} |-> 0]
    /\ built = [p \in {"anthropic", "openai"} |-> 0]
    /\ llm = IdleLLM
    /\ calls = <<>>
    /\ chain = NoChain
    /\ InitStore

CallLLM(provider, required_keys) ==
    /\ llm.status # "calling"
    /\ llm' = LLMEnter(provider, required_keys)
    /\ calls' = <<>>
    /\ UNCHANGED <<env, clients, built, chain, stageVars>>

ProviderReply(net) ==
    /\ llm.status = "calling"
    /\ LET reply == ProviderCall(env, clients, llm.provider, net)
       IN  /\ llm' = LLMNext(llm, reply)
           /\ calls' = Append(calls, reply)
    /\ clients' = ClientsAfter(env, clients, llm.provider)
    /\ built' = BuiltAfter(env, clients, llm.provider)
    /\ UNCHANGED <<env, chain, stageVars>>

NextLLM ==
    \/ \E p \in LLMProviders, k \in LLMRequiredKeys : CallLLM(p, k)
    \/ \E net \in LLMReplies \cup NetFailures : ProviderReply(net)

SpecLLM == InitLLM /\ [][NextLLM]_vars

-----------------------------------------------------------------------------
(* Artifact naming alone: the file names of a chain of stages *)

\* longest client name, file stem, in atoms
MaxNameLen == 3
\* seconds at which a stage may write
MaxClock == 2

RECURSIVE StringsUpTo(_, _)
StringsUpTo(alphabet, n) ==
    IF n = 0 THEN {<<>>}
    ELSE LET shorter == StringsUpTo(alphabet, n - 1)
         IN  shorter \cup {Append(s, a) : s \in shorter, a \in alphabet}

ClientNames == StringsUpTo({"Acme", "_", "-", " "}, MaxNameLen)
TableNames ==
    {<<"SOC2", ".", "xlsx">>, <<"ISO", "_", "27001", ".", "xlsx">>,
     <<"my", ".", "file", ".", "xlsx">>, <<"_", ".", "xlsx">>,
     <<"up", "/", "SOC", " ", "2", ".", "xlsx">>}
\* (".xlsx" alone is a name without suffix for pathlib and is left out)
StoredNames ==
    {s \o <<".", "xlsx">> : s \in StringsUpTo({"a", "_", "."}, MaxNameLen) \ {<<>>}}

InitName ==
    /\ env = Configured
    /\ clients = [p \in {"anthropic", "openai"} |-> 0]
    /\ built = [p \in {"anthropic", "openai"} |-> 0]
    /\ llm = IdleLLM
    /\ calls = <<>>
    /\ chain = NoChain
    /\ InitStore

\* analyze_policy names its table from the client name and the upload's name
NameAnalyze(t, client_name, xlsx_filename) ==
    /\ chain.stage = "none"
    /\ chain' = [stage |-> "analyze", input |-> xlsx_filename,
                 file |-> AnalyzeXlsxName(t, client_name, xlsx_filename),
                 client |-> client_name, table |-> xlsx_filename]
    /\ UNCHANGED <<llmVars, stageVars>>

\* a table that is in the store under a name no stage of this chain chose
NameStored(filename) ==
    /\ chain.stage = "none"
    /\ chain' = [stage |-> "stored", input |-> <<>>, file |-> filename,
                 client |-> <<>>, table |-> <<>>]
    /\ UNCHANGED <<llmVars, stageVars>>

\* rewrite_suggestions names its table from its input's name
NameRewrite(t) ==
    /\ chain.stage \in {"analyze", "stored", "rewrite"}
    /\ chain' = [chain EXCEPT !.stage = "rewrite", !.input = chain.file,
                              !.file = RewriteXlsxName(t, chain.file)]
    /\ UNCHANGED <<llmVars, stageVars>>

\* generate_report names its document from its input's name
NameReport(t) ==
    /\ chain.stage \in {"analyze", "stored", "rewrite"}
    /\ chain' = [chain EXCEPT !.stage = "report", !.input = chain.file,
                              !.file = ReportDocxName(t, chain.file)]
    /\ UNCHANGED <<llmVars, stageVars>>

NextName ==
    \/ \E t \in 1..MaxClock, c \in ClientNames, x \in TableNames : NameAnalyze(t, c, x)
    \/ \E f \in StoredNames : NameStored(f)
    \/ \E t \in 1..MaxClock : NameRewrite(t)
    \/ \E t \in 1..MaxClock : NameReport(t)

SpecName == InitName /\ [][NextName]_vars

-----------------------------------------------------------------------------
(* The stages: analyze_policy, rewrite_suggestions, generate_report and the  *)
(* download handler.  A step runs a handler from one provider call to the   *)
(* next, or to its return or raise.                                         *)

\* rows of an uploaded table, requests served
MaxRows == 2
MaxRuns == 2

NoRun ==
    [stage |-> "idle", status |-> "idle", exc |-> "", input |-> <<>>, table |-> EmptyTable,
     client_name |-> <<>>, xlsx_filename |-> <<>>, provider |-> "", model |-> <<>>,
     i |-> 0, results |-> <<>>, raw |-> <<>>, invoked |-> {}, included |-> {}]

NoRet ==
    [status |-> "none", exc |-> "", json_file |-> <<>>, out_file |-> <<>>,
     rows_reported |-> FALSE, at |-> 0, run |-> NoRun]

KeysOf(stage) == IF stage = "analyze" THEN AnalysisKeys ELSE RewriteKeys
ColsOf(stage) == IF stage = "analyze" THEN AnalyzeCols ELSE RewriteCols

\* _build_user_prompt reads row['id'], row['title'], row['control']
PromptKeysPresent(header) ==
    HasKey(header, "id") /\ HasKey(header, "title") /\ HasKey(header, "control")

Raised(r, e) == [r EXCEPT !.status = "raised", !.exc = e]

\* the result appended for a Rewrite row that has no suggestions
SkippedResult(r, row) ==
    [id |-> Str(PyStr(RowGet(r.table.header, row, "id", Str(<<>>)))),
     f |-> [rewritten_suggestions |-> List(<<>>), selected_llm2 |-> Str(r.model)]]

\* Rewrite sending every row to the model
RECURSIVE AdvanceNoSkip(_)
AdvanceNoSkip(r) ==
    IF r.i > Len(r.table.rows) THEN [r EXCEPT !.status = "rows_done"]
    ELSE IF ~PromptKeysPresent(r.table.header) THEN Raised(r, "KeyError")
    ELSE [r EXCEPT !.status = "need_llm", !.invoked = @ \cup {r.i}]

\* The row loop from row r.i up to the next call_llm, the end of the rows,
\* or a raise.
RECURSIVE Advance(_)
Advance(r) ==
    IF r.i > Len(r.table.rows) THEN [r EXCEPT !.status = "rows_done"]
    ELSE LET row == r.table.rows[r.i]
             suggestions == OrEmpty(RowGet(r.table.header, row, "suggestions", None))
         IN  IF r.stage = "rewrite" /\ suggestions.t # "str"
             THEN Raised(r, "AttributeError")
             ELSE IF r.stage = "rewrite" /\ Strip(suggestions.v) = <<>>
             THEN Advance([r EXCEPT !.i = @ + 1,
                                    !.results = Append(@, SkippedResult(r, row)),
                                    !.raw = Append(@, None)])
             ELSE IF ~PromptKeysPresent(r.table.header) THEN Raised(r, "KeyError")
             ELSE [r EXCEPT !.status = "need_llm", !.invoked = @ \cup {r.i}]

\* the result appended for row r.i from the validated model output
RowResult(r, validated) ==
    LET row == r.table.rows[r.i]
        h == r.table.header
    IN  IF r.stage = "analyze"
        THEN [id |-> RowGet(h, row, "id", None),
              f |-> [control |-> RowGet(h, row, "control", None),
                     selected_llm1 |-> Str(r.model),
                     match |-> validated.v.match,
                     if_yes_reason |-> validated.v.if_yes_reason,
                     suggestions |-> validated.v.suggestions]]
        ELSE [id |-> Str(PyStr(RowGet(h, row, "id", Str(<<>>)))),
              f |-> [rewritten_suggestions |-> validated, selected_llm2 |-> Str(r.model)]]

Validate(stage, result) ==
    IF stage = "analyze" THEN AnalysisValidate(result) ELSE RewriteValidate(result)

\* the newest result put first
AcceptPrepending(r, llm_result) ==
    LET v == Validate(r.stage, llm_result)
    IN  IF ~v.ok THEN Raised(r, v.exc)
        ELSE Advance([r EXCEPT !.i = @ + 1,
                               !.results = <<RowResult(r, v.val)>> \o @,
                               !.raw = <<llm_result>> \o @])

\* call_llm returned llm_result for row r.i: validate, append, go on
Accept(r, llm_result) ==
    LET v == Validate(r.stage, llm_result)
    IN  IF ~v.ok THEN Raised(r, v.exc)
        ELSE Advance([r EXCEPT !.i = @ + 1,
                               !.results = Append(@, RowResult(r, v.val)),
                               !.raw = Append(@, llm_result)])

JsonName(r, t) == IF r.stage = "analyze" THEN AnalyzeJsonName(t) ELSE RewriteJsonName(t)
XlsxName(r, t) ==
    IF r.stage = "analyze" THEN AnalyzeXlsxName(t, r.client_name, r.xlsx_filename)
    ELSE RewriteXlsxName(t, r.input)

\* the workbook the results are merged into: Analyze re-reads the upload,
\* Rewrite re-reads its input file
WorkbookOf(st, r) ==
    IF r.stage = "analyze" THEN r.table
    ELSE LoadWorkbook(st, Resolve(JoinPath(OUTPUTS_DIR, r.input))).table

\* the store after the JSON file and then the table are written at second t
Written(st, r, t) ==
    LET st1 == WriteFile(st, JsonName(r, t), Json(r.results))
    IN  WriteFile(st1, XlsxName(r, t), Xlsx(Merge(WorkbookOf(st1, r), r.results, ColsOf(r.stage))))

\* a row failed: what the stage leaves in the store when it keeps the
\* results it has so far
StoreOnFailureKeepingPartial(st, r, t) == Written(st, r, t)

\* a row failed: the exception leaves the stage; nothing was written
StoreOnFailure(st, r, t) == st

Return(r) ==
    /\ store' = Written(store, r, now)
    /\ ret' = [status |-> "ok", exc |-> "", json_file |-> JsonName(r, now),
               out_file |-> XlsxName(r, now), rows_reported |-> FALSE, at |-> now, run |-> r]
    /\ run' = NoRun

Raise(r) ==
    /\ store' = StoreOnFailure(store, r, now)
    /\ ret' = [status |-> "raised", exc |-> r.exc, json_file |-> <<>>, out_file |-> <<>>,
               rows_reported |-> FALSE, at |-> now, run |-> r]
    /\ run' = NoRun

\* r is where the row loop stopped; l is call_llm's state if no new
\* invocation starts.  ret is the response to the latest request: none while
\* the request is being served.
Proceed(r, l) ==
    CASE r.status = "raised" -> Raise(r) /\ llm' = l
      [] r.status = "rows_done" -> Return(r) /\ llm' = l
      [] OTHER ->
           LET e == LLMEnter(r.provider, KeysOf(r.stage))
           IN  /\ llm' = e
               /\ IF e.status = "raised"
                  THEN Raise(Raised(r, e.exc))
                  ELSE run' = r /\ ret' = NoRet /\ UNCHANGED store

Idle == run.stage = "idle" /\ llm.status # "calling"

\* analysis.py analyze_policy up to its first provider call
Analyze(pdf, readable, table, xlsx_filename, client_name, provider, model) ==
    /\ Idle
    /\ nruns < MaxRuns
    /\ nruns' = nruns + 1
    /\ opened' = {}
    /\ LET r == [NoRun EXCEPT !.stage = "analyze", !.status = "start", !.table = table,
                              !.xlsx_filename = xlsx_filename, !.client_name = client_name,
                              !.provider = provider, !.model = model, !.i = 1]
       IN  IF pdf # "pdf"
           THEN Proceed(Raised(r, "ValueError: Uploaded file is not a valid PDF"), llm)
           ELSE IF ~readable
           THEN Proceed(Raised(r, "ValueError: Could not open the uploaded XLSX file"), llm)
           ELSE Proceed(Advance(r), llm)
    /\ UNCHANGED <<env, clients, built, calls, chain, now>>

\* rewrite.py rewrite_suggestions up to its first provider call
Rewrite(input_xlsx_filename, provider, model) ==
    /\ Idle
    /\ nruns < MaxRuns
    /\ nruns' = nruns + 1
    /\ LET r == [NoRun EXCEPT !.stage = "rewrite", !.status = "start",
                              !.input = input_xlsx_filename,
                              !.provider = provider, !.model = model, !.i = 1]
           input_path == ResolveInput(store, env, input_xlsx_filename)
           wb == LoadWorkbook(store, input_path.path)
       IN  IF ~input_path.ok
           THEN opened' = {} /\ Proceed(Raised(r, input_path.exc), llm)
           ELSE /\ opened' = {input_path.path}
                /\ IF ~wb.ok
                   THEN Proceed(Raised(r, "InvalidFileException"), llm)
                   ELSE Proceed(Advance([r EXCEPT !.table = wb.table]), llm)
    /\ UNCHANGED <<env, clients, built, calls, chain, now>>

\* One provider call of the stage in progress answers; the stage runs on to
\* its next provider call, its return or its raise.
BackendReply(net) ==
    /\ run.stage \in {"analyze", "rewrite"}
    /\ llm.status = "calling"
    /\ LET reply == ProviderCall(env, clients, llm.provider, net)
           l == LLMNext(llm, reply)
       IN  CASE l.status = "calling" -> llm' = l /\ UNCHANGED <<store, ret, run>>
             [] l.status = "raised" -> llm' = l /\ Raise(Raised(run, l.exc))
             [] OTHER -> Proceed(Accept(run, l.result), l)
    /\ clients' = ClientsAfter(env, clients, llm.provider)
    /\ built' = BuiltAfter(env, clients, llm.provider)
    /\ UNCHANGED <<env, calls, chain, now, nruns, opened>>

\* report.py generate_report
Report(input_xlsx_filename) ==
    /\ Idle
    /\ nruns < MaxRuns
    /\ nruns' = nruns + 1
    /\ LET r == [NoRun EXCEPT !.stage = "report", !.status = "start",
                              !.input = input_xlsx_filename]
           input_path == ResolveInput(store, env, input_xlsx_filename)
           wb == LoadWorkbook(store, input_path.path)
           rows == ProcessedRows(wb.table, 1)
           done == [r EXCEPT !.status = "rows_done", !.table = wb.table,
                             !.included = {n \in 1..Len(wb.table.rows) :
                                              Reportable(wb.table.header, wb.table.rows[n])}]
           bad == \E n \in 1..Len(wb.table.rows) :
                     OrEmpty(RowGet(wb.table.header, wb.table.rows[n], "suggestions", None)).t
                         # "str"
           docx_name == ReportDocxName(now, input_xlsx_filename)
       IN  IF ~env.template
           THEN opened' = {} /\ Raise(Raised(r, "FileNotFoundError: Report template not found"))
           ELSE IF ~input_path.ok
           THEN opened' = {} /\ Raise(Raised(r, input_path.exc))
           ELSE /\ opened' = IF wb.ok THEN {input_path.path, TEMPLATE_PATH}
                                     ELSE {input_path.path}
                /\ IF ~wb.ok
                   THEN Raise(Raised(r, "ValueError: Could not open the input XLSX file"))
                   ELSE IF bad THEN Raise(Raised([r EXCEPT !.table = wb.table], "AttributeError"))
                   ELSE IF SortRaises(rows)
                   THEN Raise(Raised([r EXCEPT !.table = wb.table], "TypeError"))
                   ELSE /\ store' = WriteFile(store, docx_name, Docx(Body(SortRows(rows), 1)))
                        /\ ret' = [status |-> "ok", exc |-> "", json_file |-> <<>>,
                                   out_file |-> docx_name, rows_reported |-> rows # <<>>,
                                   at |-> now, run |-> done]
                        /\ run' = NoRun
    /\ UNCHANGED <<env, clients, built, llm, calls, chain, now>>

\* main.py download_file
Download(filename) ==
    /\ Idle
    /\ nruns < MaxRuns
    /\ nruns' = nruns + 1
    /\ LET r == [NoRun EXCEPT !.stage = "download", !.status = "start", !.input = filename]
           safe_path == DownloadResolve(store, env, filename)
       IN  IF ~safe_path.ok
           THEN /\ opened' = {}
                /\ ret' = [NoRet EXCEPT !.status = "raised", !.exc = safe_path.exc,
                                        !.at = now, !.run = Raised(r, safe_path.exc)]
           ELSE /\ opened' = {safe_path.path}
                /\ ret' = [NoRet EXCEPT !.status = "ok", !.out_file = filename,
                                        !.at = now, !.run = r]
    /\ UNCHANGED <<env, clients, built, llm, calls, chain, store, now, run>>

\* a second passes.  The clock is read only where a stage names its files, so
\* seconds are counted between requests, once there is a file to tell apart.
Tick ==
    /\ Idle
    /\ store # EmptyStore
    /\ now < MaxClock
    /\ now' = now + 1
    /\ UNCHANGED <<env, clients, built, llm, calls, chain, store, run, ret, nruns, opened>>

-----------------------------------------------------------------------------
(* The pipeline: uploads, replies and requests *)

Cell(a) == Str(<<a>>)

\* an upload of n controls with ids "1".."n"
Upload(n) ==
    [header |-> <<Key("id"), Key("title"), Key("control")>>,
     rows |-> [k \in 1..n |-> <<Cell(ToString(k)), Cell("t"), Cell("c")>>]]

StoredTables(st) == {st[f].table : f \in {g \in DOMAIN st : st[g].kind = "xlsx"}}

\* an upload whose first column is not the id column
Reordered ==
    [header |-> <<Key("title"), Key("id"), Key("control")>>,
     rows |-> <<<<Cell("t"), Cell("1"), Cell("c")>>>>]

\* what a user may upload: a fresh table, or a table downloaded from the store
Uploads(st) == {Upload(0), Upload(MaxRows), Reordered} \cup StoredTables(st)

Verdict(match, suggestions) ==
    Dict([match |-> Str(match), if_yes_reason |-> Str(<<"ok">>),
          suggestions |-> Str(suggestions)])

StageReplies ==
    {Plain(Verdict(<<" ", "Y", "e", "s", " ">>, <<"fix">>)),
     Fenced(Verdict(<<"N", "O">>, <<" ">>)),
     Plain(Verdict(<<"m", "a", "y", "b", "e">>, <<"fix">>)),
     Plain(Dict([rewritten_suggestions |-> List(<<Str(<<"a">>), Str(<<"b">>)>>)])),
     Plain(Dict([rewritten_suggestions |-> Num("5")])),
     Garbage}

StageProviders == {"ollama", "grok"}
UploadNames == {<<"SOC2", ".", "xlsx">>}
StageClients == {<<"Acme">>}
Model1 == <<"gemma3">>
Model2 == <<"gpt">>

\* names a request may give: the files of the store and one that is not there
InputNames(st) == DOMAIN st \cup {<<"missing", ".", "xlsx">>}

Init ==
    /\ env = Configured
    /\ clients = [p \in {"anthropic", "openai"} |-> 0]
    /\ built = [p \in {"anthropic", "openai"} |-> 0]
    /\ llm = IdleLLM
    /\ calls = <<>>
    /\ chain = NoChain
    /\ store = EmptyStore
    /\ now = 1
    /\ run = NoRun
    /\ ret = NoRet
    /\ nruns = 0
    /\ opened = {}

Next ==
    \/ \E pdf \in {"pdf"}, readable \in BOOLEAN, table \in Uploads(store),
          x \in UploadNames, c \in StageClients, p \in StageProviders :
          Analyze(pdf, readable, table, x, c, p, Model1)
    \/ \E f \in InputNames(store), p \in StageProviders : Rewrite(f, p, Model2)
    \/ \E f \in InputNames(store) : Report(f)
    \/ \E net \in StageReplies : BackendReply(net)
    \/ Tick

Spec == Init /\ [][Next]_vars

-----------------------------------------------------------------------------
(* Requests by file name: Rewrite, Report and download over a store that     *)
(* holds the artifacts of one Analyze run                                    *)

AnalyzedRun ==
    LET r == [NoRun EXCEPT !.stage = "analyze", !.status = "rows_done",
                           !.table = Upload(1), !.xlsx_filename = <<"SOC2", ".", "xlsx">>,
                           !.client_name = <<"Acme">>, !.provider = "ollama",
                           !.model = Model1, !.i = 1]
    IN  [r EXCEPT !.i = 2,
                  !.results = <<RowResult(r, AnalysisValidate(Verdict(<<"n", "o">>, <<"fix">>)).val)>>,
                  !.raw = <<Verdict(<<"n", "o">>, <<"fix">>)>>,
                  !.invoked = {1}]

AnalyzedName == XlsxName(AnalyzedRun, 1)

\* directories a requested name starts with, and what it ends with
PathPrefixes ==
    {<<>>, <<".", ".", "/">>, <<".", ".", "/", ".", ".", "/">>,
     <<".", ".", "/", "outputs", "/">>, <<".", ".", "/", "outputs", "2", "/">>,
     <<"app", "/", "outputs", "/">>}
PathTargets ==
    {AnalyzedName, <<"x", ".", "xlsx">>, <<"etc", "/", "passwd">>, <<"secret", ".", "txt">>}

\* relative and absolute names
PathNames ==
    {pre \o t : pre \in PathPrefixes, t \in PathTargets}
        \cup {<<"/">> \o pre \o t : pre \in PathPrefixes, t \in PathTargets}

InitPath ==
    /\ env = Configured
    /\ clients = [p \in {"anthropic", "openai"} |-> 0]
    /\ built = [p \in {"anthropic", "openai"} |-> 0]
    /\ llm = IdleLLM
    /\ calls = <<>>
    /\ chain = NoChain
    /\ store = Written(EmptyStore, AnalyzedRun, 1)
    /\ now = 1
    /\ run = NoRun
    /\ ret = NoRet
    /\ nruns = 0
    /\ opened = {}

NextPath ==
    \/ \E f \in PathNames : Rewrite(f, "ollama", Model2)
    \/ \E f \in PathNames : Report(f)
    \/ \E f \in PathNames : Download(f)
    \/ \E net \in {Plain(RewriteOne), Garbage} : BackendReply(net)

SpecPath == InitPath /\ [][NextPath]_vars

-----------------------------------------------------------------------------
(* Rewrite and Report over the table of one Analyze run, with the values a   *)
(* model may give for rewritten_suggestions                                  *)

Chars(n) == [i \in 1..n |-> "a"]
Item(k) == Str(<<"item", ToString(k)>>)
Items(n) == List([k \in 1..n |-> Item(k)])

RewrittenValues ==
    {Str(<<"one">>), Str(Chars(MAX_SUGGESTION_CHARS + 1)),
     Items(0), Items(1), Items(2), Items(MAX_SUGGESTION_ITEMS), Items(MAX_SUGGESTION_ITEMS + 1),
     List(<<Str(Chars(MAX_SUGGESTION_CHARS + 1)), Item(2)>>),
     List(<<Str(<<"a", "\n", "b">>)>>),
     List(<<Str(<<>>), Item(2)>>),
     List(<<Num("5")>>),
     Num("5"), Dict([k |-> Str(<<"one">>)]), None, Bool("True")}

RewriteReplies ==
    {Plain(Dict([rewritten_suggestions |-> x])) : x \in RewrittenValues} \cup {Garbage}

XlsxFiles(st) == {f \in DOMAIN st : st[f].kind = "xlsx"}

InitRewrite ==
    /\ env = Configured
    /\ clients = [p \in {"anthropic", "openai"} |-> 0]
    /\ built = [p \in {"anthropic", "openai"} |-> 0]
    /\ llm = IdleLLM
    /\ calls = <<>>
    /\ chain = NoChain
    /\ store = Written(EmptyStore, AnalyzedRun, 1)
    /\ now = 2
    /\ run = NoRun
    /\ ret = NoRet
    /\ nruns = 0
    /\ opened = {}

NextRewrite ==
    \/ Rewrite(AnalyzedName, "ollama", Model2)
    \/ \E net \in RewriteReplies : BackendReply(net)
    \/ \E f \in XlsxFiles(store) : Report(f)

SpecRewrite == InitRewrite /\ [][NextRewrite]_vars

-----------------------------------------------------------------------------
(* Report over one stored table of a finished Rewrite run, with its rows in  *)
(* any order, with and without a category, suggestions and bullets           *)

ReportRows == 3

\* the ids of n stored rows: ascending, descending, and rotated by one
Orders(n) ==
    {[i \in 1..n |-> i], [i \in 1..n |-> n + 1 - i], [i \in 1..n |-> (i % n) + 1]}
Categories == {None, Cell("A"), Cell("B")}
SuggestionCells == {Cell("fix"), Cell(" ")}

\* the bullets cell of the row with id k: one item, two items, or no cell
BulletCell(k) ==
    IF k % 3 = 1 THEN Str(<<"x">>)
    ELSE IF k % 3 = 2 THEN Str(<<"x", "\n", "y">>)
    ELSE None

ReportHeader ==
    <<Key("id"), Key("category"), Key("title"), Key("control")>>
        \o [i \in 1..Len(AnalyzeCols) |-> Key(AnalyzeCols[i])]
        \o [i \in 1..Len(RewriteCols) |-> Key(RewriteCols[i])]

ReportRow(k, category, suggestions) ==
    <<Cell(ToString(k)), category, Str(<<"t", ToString(k)>>), Str(<<"c", ToString(k)>>),
      Cell("no"), Str(<<>>), suggestions, Str(Model1), BulletCell(k), Str(Model2)>>

ReportTables ==
    UNION {{[header |-> ReportHeader,
             rows |-> [i \in 1..n |-> ReportRow(o[i], c[i], g[i])]] :
               <<o, c, g>> \in Orders(n) \X [1..n -> Categories] \X [1..n -> SuggestionCells]} :
           n \in 0..ReportRows}

ReportInputName == RewriteXlsxName(1, AnalyzedName)

InitReport ==
    /\ env = Configured
    /\ clients = [p \in {"anthropic", "openai"} |-> 0]
    /\ built = [p \in {"anthropic", "openai"} |-> 0]
    /\ llm = IdleLLM
    /\ calls = <<>>
    /\ chain = NoChain
    /\ \E table \in ReportTables : store = WriteFile(EmptyStore, ReportInputName, Xlsx(table))
    /\ now = 2
    /\ run = NoRun
    /\ ret = NoRet
    /\ nruns = 0
    /\ opened = {}

NextReport == \E f \in XlsxFiles(store) : Report(f)

SpecReport == InitReport /\ [][NextReport]_vars

-----------------------------------------------------------------------------
(* Analyze requests for two clients and two standards, some in one second    *)

SharedClients == {<<"Acme">>, <<"Beta">>}
SharedStandards == {<<"SOC2", ".", "xlsx">>, <<"ISO", ".", "xlsx">>}
SharedReplies ==
    {Plain(Verdict(<<"y", "e", "s">>, <<>>)), Plain(Verdict(<<"n", "o">>, <<"fix">>)), Garbage}

NextShared ==
    \/ \E x \in SharedStandards, c \in SharedClients :
          Analyze("pdf", TRUE, Upload(1), x, c, "ollama", Model1)
    \/ \E net \in SharedReplies : BackendReply(net)
    \/ Tick

SpecShared == Init /\ [][NextShared]_vars

-----------------------------------------------------------------------------
(* Claims about call_llm, checked under SpecLLM *)

\* A reply that parses as JSON and contains every required key, `contains`
\* read as Python's `in` wherever the parsed value defines it.
ValidReply(required_keys, reply) ==
    /\ reply.kind = "text"
    /\ ParseJson(reply).ok
    /\ KeyCheck(ParseJson(reply).val, required_keys) = "ok"

AllText == \A i \in 1..Len(calls) : calls[i].kind = "text"
Finished == llm.status \in {"returned", "raised"}

\* C1 (as claimed): for every sequence of backend replies one call_llm
\* invocation makes at most 3 backend calls, makes no call after a valid
\* reply, returns the parsed value of the first valid reply, and gives up
\* only after three failing replies (so that two failing replies followed by
\* a valid one return the valid one on the 3rd call).
C1_ReturnsFirstValidWithinThree ==
    (llm.provider \in Providers /\ AllText) =>
        /\ Len(calls) <= MaxAttempts
        /\ \A i \in 1..(Len(calls) - 1) : ~ValidReply(llm.required_keys, calls[i])
        /\ llm.status = "returned" =>
              /\ calls # <<>>
              /\ ValidReply(llm.required_keys, calls[Len(calls)])
              /\ llm.result = ParseJson(calls[Len(calls)]).val
        /\ (calls # <<>> /\ ValidReply(llm.required_keys, calls[Len(calls)])) =>
              llm.status = "returned"
        /\ llm.status = "raised" => Len(calls) = MaxAttempts

\* C2 (as claimed): when each of the 3 attempts fails (reply unparseable, or
\* parsed but missing a required key) call_llm raises the exhaustion error
\* after exactly 3 backend calls and returns nothing.
C2_ThreeFailuresRaiseExhausted ==
    ( /\ llm.provider \in Providers
      /\ AllText
      /\ Len(calls) = MaxAttempts
      /\ \A i \in 1..Len(calls) : ~ValidReply(llm.required_keys, calls[i]) ) =>
        /\ llm.status = "raised"
        /\ llm.exc = ExhaustedError
        /\ llm.result = None

\* C3: call_llm with a provider tag outside {anthropic, openai, ollama}
\* (the empty string included) raises the unknown-provider error with no
\* provider call made and no client constructed.
C3_UnknownProviderFailsBeforeAnyCall ==
    [][ (llm'.provider \notin Providers /\ llm'.status # "idle") =>
            /\ llm'.status = "raised"
            /\ llm'.exc = UnknownProviderError
            /\ llm'.attempt = 0
            /\ calls' = <<>>
            /\ built' = built
            /\ clients' = clients ]_vars

\* An unknown tag was rejected in a process that had already built a client.
C3_Witness ==
    /\ llm.provider = ""
    /\ llm.status = "raised"
    /\ llm.exc = UnknownProviderError
    /\ built["anthropic"] = 1

-----------------------------------------------------------------------------
(* Claims about artifact names, checked under SpecName *)

\* the underscore-delimited tokens of a stem number one more than its "_"
TokenCount(stem) == Cardinality(Positions(stem, "_")) + 1

\* what follows the second "_" of a stem of three tokens or more
AfterSecondUnderscore(stem) ==
    LET i == SetMin(Positions(stem, "_"))
        j == SetMin({k \in Positions(stem, "_") : k > i})
    IN  SubSeq(stem, j + 1, Len(stem))

\* the name without directory and without ".xlsx"
StemOfXlsx(filename) == SubSeq(PathName(filename), 1, Len(PathName(filename)) - 2)

CarriedSuffix(filename) ==
    IF TokenCount(StemOfXlsx(filename)) >= 3
    THEN AfterSecondUnderscore(StemOfXlsx(filename))
    ELSE StemOfXlsx(filename)

HasTimestamp(file) == \E t \in 1..MaxClock : SubSeq(file, 1, 3) = Timestamp(t)

\* C8: Rewrite and Report name their output {new-timestamp}_{suffix}.{ext},
\* suffix being the input stem without its first two underscore-delimited
\* tokens when it has three or more and the whole stem otherwise; so the
\* {client}_{standard} suffix Analyze chose is carried unchanged through
\* every chain Analyze -> Rewrite -> Report.
C8_SuffixCarriedForward ==
    /\ chain.stage \in {"rewrite", "report"} =>
          /\ HasTimestamp(chain.file)
          /\ SubSeq(chain.file, 4, Len(chain.file)) =
                <<"_">> \o CarriedSuffix(chain.input)
                    \o <<".", IF chain.stage = "rewrite" THEN "xlsx" ELSE "docx">>
    /\ (chain.stage \in {"analyze", "rewrite", "report"} /\ chain.table # <<>>) =>
          SubSeq(chain.file, 5, Len(chain.file) - 2) =
              Sanitize(chain.client) \o <<"_">> \o Sanitize(PathStem(chain.table))

\* A report named after a rewrite of an analysis whose client and standard
\* both hold an underscore.
C8_Witness ==
    /\ chain.stage = "report"
    /\ chain.client = <<"Acme", "_", "Acme">>
    /\ chain.table = <<"ISO", "_", "27001", ".", "xlsx">>
    /\ SubSeq(chain.input, 1, 3) # SubSeq(chain.file, 1, 3)
    /\ SubSeq(chain.file, 5, Len(chain.file)) =
          <<"Acme", "_", "Acme", "_", "ISO", "_", "27001", ".", "docx">>

\* A stored name of fewer than three tokens keeps its whole stem.
C8_WitnessShort ==
    /\ chain.stage = "rewrite"
    /\ chain.input = <<"a", "_", "a", ".", "xlsx">>
    /\ SubSeq(chain.file, 5, Len(chain.file)) = <<"a", "_", "a", ".", "xlsx">>

-----------------------------------------------------------------------------
(* Claims about the stages, checked under Spec *)

Done(stage) == ret.status = "ok" /\ ret.run.stage = stage
Failed(stage) == ret.status = "raised" /\ ret.run.stage = stage

\* the model's match value, trimmed and lowercased
NormalMatch(raw) == Lower(Strip(PyStr(DictGet(raw.v, "match", Str(<<>>)))))

\* every match value held by a file of the store
StoredMatches(st) ==
    UNION {IF st[f].kind = "json"
           THEN {st[f].data[j].f.match :
                    j \in {k \in 1..Len(st[f].data) : "match" \in DOMAIN st[f].data[k].f}}
           ELSE IF st[f].kind = "xlsx"
           THEN {st[f].table.rows[n][c] :
                    n \in 1..Len(st[f].table.rows),
                    c \in {d \in 1..Len(st[f].table.header) : st[f].table.header[d] = Key("match")}}
           ELSE {} : f \in DOMAIN st}

C4_State ==
    /\ Done("analyze") =>
          /\ \A j \in 1..Len(ret.run.results) :
                /\ ret.run.results[j].f.match = Str(NormalMatch(ret.run.raw[j]))
                /\ ret.run.results[j].f.match.v \in ALLOWED_MATCH_VALUES
          /\ store[ret.json_file] = Json(ret.run.results)
          /\ LET t == store[ret.out_file].table
             IN  /\ Len(t.rows) = Len(ret.run.table.rows)
                 /\ \A n \in 1..Len(t.rows) :
                       RowGet(t.header, t.rows[n], "match", None)
                           \in {None} \cup {ret.run.results[j].f.match :
                                               j \in 1..Len(ret.run.results)}
    /\ \A m \in StoredMatches(store) : m = None \/ m.v \in ALLOWED_MATCH_VALUES

C4_Step ==
    (/\ run.stage = "analyze"
     /\ llm.status = "calling"
     /\ llm'.status = "returned"
     /\ llm'.result.t = "dict"
     /\ NormalMatch(llm'.result) \notin ALLOWED_MATCH_VALUES)
    => /\ ret'.status = "raised"
       /\ ret'.exc = MatchValueError
       /\ store' = store

\* C4: every verdict that Analyze returns, and every match held by a stored
\* JSON file or table, is the model's value trimmed and lowercased and is one
\* of yes, no, partial; a model value outside that set makes validation raise
\* and leaves the store as it was.
C4_MatchNormalizedOrRejected == [] C4_State /\ [][C4_Step]_vars

\* an Analyze run has returned a verdict whose match the validator rewrote
C4_Witness ==
    /\ Done("analyze")
    /\ \E j \in 1..Len(ret.run.results) :
          /\ ret.run.raw[j].v.match # ret.run.results[j].f.match
          /\ RowGet(store[ret.out_file].table.header, store[ret.out_file].table.rows[j],
                    "match", None) = ret.run.results[j].f.match

\* how many header cells carry the name
Occurrences(header, name) == Cardinality({c \in 1..Len(header) : header[c] = Key(name)})

AppendedNames == {"match", "if_yes_reason", "suggestions", "selected_llm1",
                  "rewritten_suggestions", "selected_llm2"}

\* C5: the table a stage writes keeps the cells of its input in place and has
\* the stage's columns once, right after the last original column; and no
\* stored table has an appended column name twice in its header.
C5_ColumnsAppendedOnceNeverDuplicated ==
    /\ (Done("analyze") \/ Done("rewrite")) =>
          LET in == ret.run.table
              out == store[ret.out_file].table
              cols == ColsOf(ret.run.stage)
          IN  /\ out.header = in.header \o [i \in 1..Len(cols) |-> Key(cols[i])]
              /\ Len(out.rows) = Len(in.rows)
              /\ \A n \in 1..Len(in.rows) :
                    SubSeq(out.rows[n], 1, Len(in.header)) = in.rows[n]
    /\ \A f \in DOMAIN store :
          store[f].kind = "xlsx" =>
              \A name \in AppendedNames : Occurrences(store[f].table.header, name) <= 1

\* the cell has something other than whitespace in it
RECURSIVE HasText(_)
HasText(s) == s # <<>> /\ (Head(s) \notin Whitespace \/ HasText(Tail(s)))

\* row n of the table has a suggestions cell that is not empty
NonEmptySuggestions(table, n) ==
    /\ \E c \in 1..Len(table.header) : table.header[c] = Key("suggestions")
    /\ LET cell == table.rows[n][KeyColumn(table.header, "suggestions")]
       IN  cell # None /\ HasText(cell.v)

WithSuggestions(table) == {n \in 1..Len(table.rows) : NonEmptySuggestions(table, n)}

\* C6: Rewrite invokes call_llm for exactly the rows whose suggestions cell is
\* not empty; a row whose cell is missing, None or whitespace gets no
\* invocation and the empty sequence as its rewritten_suggestions.
C6_EmptySuggestionsNeverInvoke ==
    /\ run.stage = "rewrite" =>
          /\ run.invoked \subseteq WithSuggestions(run.table)
          /\ \A n \in 1..Len(run.results) :
                n \notin WithSuggestions(run.table) =>
                    run.results[n].f.rewritten_suggestions = List(<<>>)
    /\ ret.run.stage = "rewrite" => ret.run.invoked \subseteq WithSuggestions(ret.run.table)
    /\ Done("rewrite") =>
          /\ ret.run.invoked = WithSuggestions(ret.run.table)
          /\ Len(ret.run.results) = Len(ret.run.table.rows)
          /\ \A n \in 1..Len(ret.run.results) :
                n \notin WithSuggestions(ret.run.table) =>
                    /\ ret.run.results[n].f.rewritten_suggestions = List(<<>>)
                    /\ ret.run.raw[n] = None

\* a Rewrite run returned over a table with a row that has suggestions and a
\* row that has none
C6_Witness ==
    /\ Done("rewrite")
    /\ ret.run.invoked # {}
    /\ \E n \in 1..Len(ret.run.table.rows) : n \notin ret.run.invoked

Headings(body) == {i \in 1..Len(body) : body[i].kind = "heading3"}

\* C7: the report has one section for each row whose suggestions cell is not
\* empty after trimming and for no other row, and rows_reported is false
\* exactly when there is no such row.
C7_ReportedIffSuggestions ==
    Done("report") =>
        /\ ret.run.included = WithSuggestions(ret.run.table)
        /\ Cardinality(Headings(store[ret.out_file].data))
              = Cardinality(WithSuggestions(ret.run.table))
        /\ ret.rows_reported = (WithSuggestions(ret.run.table) # {})

\* a report was written from a table with a row it includes and a row it
\* leaves out
C7_Witness ==
    /\ Done("report")
    /\ ret.rows_reported
    /\ \E n \in 1..Len(ret.run.table.rows) : n \notin ret.run.included

\* a report was written with rows_reported false from a table that has rows
C7_WitnessNoneReported ==
    /\ Done("report")
    /\ ~ret.rows_reported
    /\ ret.run.table.rows # <<>>

\* a report was written from a table without data rows
C7_WitnessNoRows ==
    /\ Done("report")
    /\ ~ret.rows_reported
    /\ ret.run.table.rows = <<>>

\* a step that ends a stage run
EndsRun == run' = NoRun /\ (run # NoRun \/ nruns' # nruns)

C10_Step ==
    /\ (EndsRun /\ ret'.status = "raised" /\ ret'.run.stage \in {"analyze", "rewrite"})
          => store' = store
    /\ (run.stage \in {"analyze", "rewrite"} /\ llm.status = "calling"
           /\ llm'.status = "raised")
          => (ret'.status = "raised" /\ ret'.exc = llm'.exc /\ store' = store)
    /\ (run.stage \in {"analyze", "rewrite"} /\ llm.status = "calling"
           /\ llm'.status = "returned" /\ ~Validate(run.stage, llm'.result).ok)
          => (/\ ret'.status = "raised"
              /\ ret'.exc = Validate(run.stage, llm'.result).exc
              /\ store' = store)

\* C10: when call_llm or the validator fails for a row of Analyze or Rewrite,
\* the stage raises that failure and the step writes nothing to the store,
\* however many rows came before.
C10_RowFailureWritesNothing == [][C10_Step]_vars

\* Analyze failed on a later row after an earlier row gave a result, and the
\* store is still empty
C10_Witness ==
    /\ Failed("analyze")
    /\ Len(ret.run.results) >= 1
    /\ nruns = 1
    /\ store = EmptyStore

-----------------------------------------------------------------------------
(* Claims about requests by file name, checked under SpecPath *)

\* where the name leads, and whether that is outside the store root
Target(filename) == Resolve(JoinPath(OUTPUTS_DIR, filename))
Escapes(filename) ==
    LET t == Target(filename)
    IN  Len(t) < 2 \/ t[1] # <<"app">> \/ t[2] # <<"outputs">>

PathSafetyErrors == {InvalidFilenameError, "HTTP 400: Invalid filename"}

\* C9: a Rewrite, Report or download request whose file name leads outside
\* the store root is rejected with the path-safety error and opens no file,
\* whether the target exists or not; the only file outside the root that a
\* request opens is the report template.
C9_EscapingNamesRejectedUnopened ==
    /\ (ret.status # "none" /\ ret.run.stage \in {"rewrite", "report", "download"}
           /\ Escapes(ret.run.input))
          => (ret.status = "raised" /\ ret.exc \in PathSafetyErrors /\ opened = {})
    /\ \A path \in opened :
          path = TEMPLATE_PATH \/ (Len(path) > 2 /\ path[1] = <<"app">> /\ path[2] = <<"outputs">>)

\* a Rewrite request named an existing file outside the store root and was
\* rejected
C9_Witness ==
    /\ Failed("rewrite")
    /\ Target(ret.run.input) \in OutsideFiles
    /\ ret.exc = InvalidFilenameError
    /\ opened = {}

\* the same for a download by an absolute name
C9_WitnessDownload ==
    /\ Failed("download")
    /\ IsAbsolute(ret.run.input)
    /\ Target(ret.run.input) \in OutsideFiles
    /\ ret.exc \in PathSafetyErrors

-----------------------------------------------------------------------------
(* Further claims about call_llm, checked under SpecLLM *)

\* the value `reply` parses to is JSON but no object
NonObject(reply) ==
    reply.kind = "text" /\ ParseJson(reply).ok /\ ParseJson(reply).val.t # "dict"

\* C11 (as claimed): what call_llm returns is a JSON object; a reply that is
\* valid JSON but no object (array, string, number, null) is not returned
\* and counts as a failed attempt, whatever the required keys.
C11_ReturnsOnlyObjects ==
    /\ llm.status = "returned" => llm.result.t = "dict"
    /\ (calls # <<>> /\ NonObject(calls[Len(calls)])) =>
          /\ llm.status # "returned"
          /\ llm.status = "raised" => (llm.exc = ExhaustedError /\ Len(calls) = MaxAttempts)

ConfigurationError == "RuntimeError: API key is not set"
KeyProviders == {"anthropic", "openai"}

\* C12: with the key of the selected backend missing, the first provider call
\* of an invocation raises the configuration error out of call_llm on
\* attempt 1, whatever the network would have answered, and builds no
\* client; an invocation of a backend whose key is set is served.
C12_MissingKeyFailsAtFirstUse ==
    [][ (/\ llm.status = "calling"
         /\ llm.provider \in KeyProviders
         /\ ~EnvKey(env, llm.provider))
        => /\ llm.attempt = 0
           /\ llm'.status = "raised"
           /\ llm'.exc = ConfigurationError
           /\ llm'.attempt = 1
           /\ calls' = <<Raises(ConfigurationError)>>
           /\ clients' = clients
           /\ built' = built ]_vars

\* the anthropic key is missing and its invocation failed, in a process
\* that has served openai
C12_Witness ==
    /\ ~env.anthropic_key
    /\ llm.provider = "anthropic"
    /\ llm.status = "raised"
    /\ llm.exc = ConfigurationError
    /\ clients["openai"] # 0

\* what the provider call raises on a connection failure, a timeout or an
\* HTTP error status
TransportErrors ==
    {"ValueError: Could not connect to Ollama", "httpx.ReadTimeout",
     "ValueError: Ollama returned HTTP",
     "APIConnectionError", "APITimeoutError", "APIStatusError"}

\* C13: a connection failure, timeout or HTTP error status ends the
\* invocation at that attempt with that error; the exhaustion error is
\* raised only after three replies that were all text.
C13_TransportErrorsSurface ==
    /\ \A i \in 1..Len(calls) :
          (calls[i].kind = "raise" /\ calls[i].exc \in TransportErrors) =>
              /\ i = Len(calls)
              /\ llm.status = "raised"
              /\ llm.exc = calls[i].exc
    /\ (llm.status = "raised" /\ llm.exc = ExhaustedError) =>
          (Len(calls) = MaxAttempts /\ AllText)

\* the third attempt timed out after two replies that did not parse
C13_Witness ==
    /\ Len(calls) = MaxAttempts
    /\ calls[1] = Garbage
    /\ calls[2] = Garbage
    /\ calls[3].kind = "raise"
    /\ calls[3].exc \in {"httpx.ReadTimeout", "APITimeoutError"}
    /\ llm.status = "raised"

\* the three tiers in order, the text being a parse failure only if all fail
ThreeTiers(text) ==
    IF text.whole # Bad THEN Parsed(text.whole)
    ELSE IF text.fence \notin {NoMatch, Bad} THEN Parsed(text.fence)
    ELSE IF text.brace \notin {NoMatch, Bad} THEN Parsed(text.brace)
    ELSE JSONDecodeError

\* C14 (as claimed): _parse_json gives the whole text as JSON, else the
\* fenced block, else (no fenced block, or one that does not parse) the
\* brace-delimited span, and fails only if all three fail.
C14_ThreeTierFallback ==
    \A i \in 1..Len(calls) :
        calls[i].kind = "text" => ParseJson(calls[i]) = ThreeTiers(calls[i])

-----------------------------------------------------------------------------
(* Further claims about the stages, checked under Spec *)

InRun == run.stage \in {"analyze", "rewrite"}

\* the id a stage records for row n of its table
RowId(stage, table, n) ==
    LET cell == RowGet(table.header, table.rows[n], "id", IF stage = "analyze" THEN None ELSE Str(<<>>))
    IN  IF stage = "analyze" THEN cell ELSE Str(PyStr(cell))

\* results are those of rows 1..Len(results), in that order
InRowOrder(r) ==
    /\ Len(r.results) <= Len(r.table.rows)
    /\ \A n \in 1..Len(r.results) : r.results[n].id = RowId(r.stage, r.table, n)

C16_State ==
    /\ InRun =>
          /\ InRowOrder(run)
          /\ Len(run.results) = run.i - 1
          /\ \A n \in run.invoked : n <= run.i
          /\ llm.status = "calling" => run.i \in run.invoked
    /\ (Done("analyze") \/ Done("rewrite")) =>
          /\ InRowOrder(ret.run)
          /\ Len(ret.run.results) = Len(ret.run.table.rows)
          /\ store[ret.json_file] = Json(ret.run.results)

C16_Step ==
    (InRun /\ run'.stage = run.stage) =>
        /\ run'.i >= run.i
        /\ SubSeq(run'.results, 1, Len(run.results)) = run.results
        /\ \A n \in run'.invoked \ run.invoked : n = run'.i /\ n > run.i

\* C16: Analyze and Rewrite take the rows in input order, finishing the
\* provider calls of one row before the next row's begin; the results have
\* one entry for each data row, entry n being that of row n.
C16_RowsInInputOrder == [] C16_State /\ [][C16_Step]_vars

\* a stage returned results for two rows, each invoked
C16_Witness ==
    /\ Done("analyze")
    /\ Len(ret.run.results) >= 2
    /\ ret.run.results[1].id # ret.run.results[2].id
    /\ ret.run.results[1].f.suggestions # ret.run.results[2].f.suggestions

-----------------------------------------------------------------------------
(* Claims about the Rewrite validator and the bullets, checked under         *)
(* SpecRewrite                                                               *)

\* the first n of s
FirstN(s, n) == [i \in 1..(IF Len(s) < n THEN Len(s) ELSE n) |-> s[i]]

\* what the model gave for rewritten_suggestions
Given(raw) == raw.v.rewritten_suggestions

\* L is the sequence the claim describes for the value x
NormalizedFrom(x, L) ==
    /\ x.t \in {"str", "list"}
    /\ x.t = "str" => L = <<Str(FirstN(x.v, 2000))>>
    /\ x.t = "list" =>
          /\ Len(L) = (IF Len(x.v) < 10 THEN Len(x.v) ELSE 10)
          /\ \A k \in 1..Len(L) : L[k] = Str(FirstN(PyStr(x.v[k]), 2000))
    /\ Len(L) <= 10
    /\ \A k \in 1..Len(L) : L[k].t = "str" /\ Len(L[k].v) <= 2000

C17_State ==
    Done("rewrite") =>
        \A n \in ret.run.invoked :
            NormalizedFrom(Given(ret.run.raw[n]), ret.run.results[n].f.rewritten_suggestions.v)

C17_Step ==
    (/\ run.stage = "rewrite"
     /\ llm.status = "calling"
     /\ llm'.status = "returned"
     /\ llm'.result.t = "dict"
     /\ Given(llm'.result).t \notin {"str", "list"})
    => /\ ret'.status = "raised"
       /\ ret'.exc = "ValueError: rewritten_suggestions must be a list"
       /\ store' = store

\* C17: the Rewrite validator gives a one-item sequence for a string, the
\* items in order for a sequence, at most 10 items of at most 2000
\* characters each, and raises the validation error for any other type.
C17_RewrittenNormalized == [] C17_State /\ [][C17_Step]_vars

\* a Rewrite run returned after the validator cut a sequence of 11 items
C17_Witness ==
    /\ Done("rewrite")
    /\ \E n \in ret.run.invoked :
          /\ Given(ret.run.raw[n]).t = "list"
          /\ Len(Given(ret.run.raw[n]).v) = 11
          /\ Len(ret.run.results[n].f.rewritten_suggestions.v) = 10

\* the texts of the bullets of a document body
RECURSIVE Bullets(_)
Bullets(body) ==
    IF body = <<>> THEN <<>>
    ELSE (IF Head(body).kind = "bullet" THEN <<Head(body).text>> ELSE <<>>)
         \o Bullets(Tail(body))

\* the Rewrite results held by the JSON file written with table f
RewriteResultsOf(st, f) ==
    LET j == SubSeq(f, 1, 3) \o <<"_", "output", "_", "llm2", ".", "json">>
    IN  IF j \in DOMAIN st /\ st[j].kind = "json" THEN st[j].data ELSE <<>>

\* C19 (as claimed): the rewritten_suggestions cell that Rewrite stores for
\* a row is the items of its validated sequence L joined by newlines, and
\* the bullets Report emits for that row are exactly the items of L.
C19_BulletsRoundTrip ==
    (Done("report") /\ Len(ret.run.table.rows) = 1
        /\ Len(RewriteResultsOf(store, ret.run.input)) = 1
        /\ HasKey(ret.run.table.header, "rewritten_suggestions")) =>
        LET L == RewriteResultsOf(store, ret.run.input)[1].f.rewritten_suggestions.v
            cell == RowGet(ret.run.table.header, ret.run.table.rows[1],
                           "rewritten_suggestions", None)
        IN  /\ cell = Str(JoinLines([k \in 1..Len(L) |-> L[k].v]))
            /\ Bullets(store[ret.out_file].data) = [k \in 1..Len(L) |-> L[k].v]

-----------------------------------------------------------------------------
(* Claims about the elements of the report, checked under SpecReport         *)

At(body, kind) == {p \in 1..Len(body) : body[p].kind = kind}

\* the cell of row n under a column, missing read as the empty string
CellText(table, n, col) == OrEmpty(RowGet(table.header, table.rows[n], col, None)).v

\* the reported row a sub-heading at p stands for
RowAt(table, body, p) ==
    CHOOSE n \in WithSuggestions(table) : CellText(table, n, "title") = body[p].text

\* row m comes strictly before row n by (category, id)
Before(table, m, n) ==
    \/ StrLess(CellText(table, m, "category"), CellText(table, n, "category"))
    \/ /\ CellText(table, m, "category") = CellText(table, n, "category")
       /\ StrLess(CellText(table, m, "id"), CellText(table, n, "id"))

\* the bullets that directly follow the paragraph of the sub-heading at p
BulletsAfter(body, p) ==
    {q \in (p + 2)..Len(body) : \A k \in (p + 2)..q : body[k].kind = "bullet"}

\* the number of suggestion items of row n
ItemCount(table, n) ==
    IF CellText(table, n, "rewritten_suggestions") = <<>> THEN 0
    ELSE Cardinality(Positions(CellText(table, n, "rewritten_suggestions"), "\n")) + 1

\* C18: the report is one page break first, only when a row is reported;
\* the reported rows in (category, id) order with a missing category read as
\* the empty string; one category heading per distinct category, directly
\* before the first row of that category; and per row one sub-heading, one
\* requirement paragraph and one bullet per suggestion item.
C18_ElementSequence ==
    Done("report") =>
        LET table == ret.run.table
            body == store[ret.out_file].data
            R == WithSuggestions(table)
            H3 == At(body, "heading3")
        IN  /\ Cardinality(At(body, "page_break")) = (IF R = {} THEN 0 ELSE 1)
            /\ R # {} => body[1].kind = "page_break"
            /\ Cardinality(H3) = Cardinality(R)
            /\ {body[p].text : p \in H3} = {CellText(table, n, "title") : n \in R}
            /\ Cardinality(At(body, "paragraph")) = Cardinality(R)
            /\ \A p \in H3 :
                  /\ p + 1 <= Len(body)
                  /\ body[p + 1] = El("paragraph", CellText(table, RowAt(table, body, p), "control"))
                  /\ Cardinality(BulletsAfter(body, p)) = ItemCount(table, RowAt(table, body, p))
            /\ At(body, "bullet") = UNION {BulletsAfter(body, p) : p \in H3}
            /\ \A p, q \in H3 :
                  p < q => ~Before(table, RowAt(table, body, q), RowAt(table, body, p))
            /\ Cardinality(At(body, "heading2"))
                  = Cardinality({CellText(table, n, "category") : n \in R})
            /\ \A p \in H3 :
                  LET category == CellText(table, RowAt(table, body, p), "category")
                      first == \A q \in H3 :
                                  q < p => CellText(table, RowAt(table, body, q), "category") # category
                  IN  /\ first <=> (p > 1 /\ body[p - 1].kind = "heading2")
                      /\ first => body[p - 1].text = category
            /\ \A p \in At(body, "heading2") : p + 1 \in H3
            /\ 1..Len(body) = At(body, "page_break") \cup At(body, "heading2") \cup H3
                                 \cup At(body, "paragraph") \cup At(body, "bullet")

\* a report of three rows stored out of order: two rows of one category
\* around a row without category
C18_Witness ==
    /\ Done("report")
    /\ Len(ret.run.table.rows) = 3
    /\ WithSuggestions(ret.run.table) = {1, 2, 3}
    /\ CellText(ret.run.table, 1, "category") = <<"B">>
    /\ CellText(ret.run.table, 2, "category") = <<>>
    /\ CellText(ret.run.table, 3, "category") = <<"B">>
    /\ StrLess(CellText(ret.run.table, 3, "id"), CellText(ret.run.table, 1, "id"))
    /\ Cardinality(At(store[ret.out_file].data, "heading2")) = 2

-----------------------------------------------------------------------------
(* Claims about the artifact store, checked under SpecShared                 *)

\* the timestamp a stored file is named with, and the rest of its stem
StampOf(f) == SubSeq(f, 1, 3)
SuffixOf(f) == Remainder(f)

\* C20 (as claimed): a run replaces the contents of a stored file only when
\* the runs that wrote files in that second had the same client and standard
\* suffix as this run; runs for different clients or standards never
\* overwrite each other's JSON file or table, even in the same second.
C20_NoOverwriteAcrossClients ==
    [][\A f \in DOMAIN store :
          store'[f] # store[f] =>
              /\ ret'.status = "ok"
              /\ StampOf(f) = StampOf(ret'.out_file)
              /\ \A g \in XlsxFiles(store) :
                    StampOf(g) = StampOf(f) => SuffixOf(g) = SuffixOf(ret'.out_file)]_vars

-----------------------------------------------------------------------------
(* Claims about the agreement of results, JSON file and table, checked under *)
(* Spec                                                                      *)

\* the ids of the table are non-empty and pairwise different
UniqueIds(stage, table) ==
    /\ HasKey(table.header, "id")
    /\ \A n \in 1..Len(table.rows) : RowId(stage, table, n) \notin {None, Str(<<>>)}
    /\ \A m, n \in 1..Len(table.rows) :
          RowId(stage, table, m) = RowId(stage, table, n) => m = n

\* the cells the output table holds for row n under the appended columns
Appended(out, cols, n) ==
    SubSeq(out.rows[n], Len(out.rows[n]) - Len(cols) + 1, Len(out.rows[n]))

\* the fields of a result in the order of the appended columns, a sequence
\* of items as its newline-joined text
FieldCells(result, cols) ==
    [i \in 1..Len(cols) |->
        LET x == result.f[cols[i]]
        IN  IF x.t = "list" THEN Str(JoinLines([k \in 1..Len(x.v) |-> x.v[k].v])) ELSE x]

\* C21 (as claimed): after a successful Analyze or Rewrite on a table whose
\* ids are unique and non-empty, the results, the JSON file and the output
\* table agree row by row: the cells appended to data row n are the fields
\* of result n, and no processed row is left with blank appended cells.
C21_ResultsJsonTableAgree ==
    ((Done("analyze") \/ Done("rewrite"))
        /\ UniqueIds(ret.run.stage, ret.run.table)) =>
        LET out == store[ret.out_file].table
            cols == ColsOf(ret.run.stage)
        IN  /\ store[ret.json_file].data = ret.run.results
            /\ Len(out.rows) = Len(ret.run.table.rows)
            /\ Len(ret.run.results) = Len(ret.run.table.rows)
            /\ \A n \in 1..Len(out.rows) :
                  /\ Appended(out, cols, n) = FieldCells(ret.run.results[n], cols)
                  /\ n \in ret.run.invoked =>
                        \E i \in 1..Len(cols) : Appended(out, cols, n)[i] # None

====
